---- MODULE Spec2Model ----
(***************************************************************************)
(* Verification model of the charbot repository.                           *)
(*                                                                         *)
(*   woman.py     the room collector and its bounded download scheduler    *)
(*                (specifications Spec and FairSpec)                       *)
(*   telegram.py  the uploader: partial recovery, scan and delivery        *)
(*                (specification UploaderSpec)                             *)
(*                one call of run_once (specification PassSpec)            *)
(*                the WATCH loop with a shutdown signal                    *)
(*                (specification ShutdownSpec)                             *)
(*                the WATCH loop without an end (specification WatchSpec)  *)
(*                a pass over a folder whose quarantine is not empty       *)
(*                (specification QuarantineSpec)                           *)
(*   both         functions taken alone, applied to bounded inputs         *)
(*                (specification HelpersSpec)                              *)
(*   both         the uploader running beside the post-processing of       *)
(*                woman.py on one directory (specification PipelineSpec)   *)
(***************************************************************************)
EXTENDS Integers, Sequences, FiniteSets, TLC

(***************************************************************************)
(* Bounds of the model and program constants.                              *)
(***************************************************************************)
\* largest clock value, age threshold and mtime given to is_stable
MaxClock == 3
\* largest file size and lightweight limit given to upload_via_bot, in MB
MaxSizeMB == 3
\* longest list of anchors the page yields
MaxAnchors == 3
\* largest --max-active argument explored (1..MaxActiveArg)
MaxActiveArg == 2
\* woman.py: DEFAULT_LIMIT_ROOMS
DEFAULT_LIMIT_ROOMS == 100

VARIABLES
    \* ---- woman.py ----
    anchors,        \* hrefs of the anchors found on the page (input)
    max_active,     \* args.max_active
    rooms,          \* result of collect_rooms
    n_hrefs,        \* number of accepted hrefs before de-duplication
    remaining,      \* deque of locators waiting for a slot
    seen,           \* set of locators already taken
    progress_map,   \* url -> status shown by the monitor
    active_jobs,    \* list of JobInfo (job ids)
    jobs,           \* JobInfo objects: [url, status]
    pc,             \* thread -> position; thread 0 is main, j is _runner(jobs[j])
    call,           \* thread -> frame of the spawn_job call it is in
    main_i,         \* index of the for-loop over initial
    jobs_lock,      \* holder of jobs_lock (Free when not held)
    cancel_event,
    stop_monitor,
    \* ---- telegram.py ----
    fs,                 \* the filesystem: path -> file (NoFile when absent)
    now,                \* time.time(), in seconds
    quarantine_dir,     \* the directory QUARANTINE_DIR resolves to
    delete_after_send,  \* DELETE_AFTER_SEND
    phase,              \* where main()/run_once() stands
    parts,              \* recover_partials: the partials still to visit
    files,              \* run_once: the result of list_ready_files
    idx,                \* run_once: index of the for-loop over files
    last,               \* history: how the last operation of the cycle ended
    STOP,               \* the flag handle_sigterm sets
    swept,              \* history: calls of recover_partials begun since STOP was set
    delivered,          \* history: the contents (ids) whose delivery was confirmed
    \* ---- a function taken alone ----
    fn,                 \* the function called
    arg,                \* its arguments and the environment it reads
    ret,                \* what it returns and the external calls it issues
    \* ---- woman.py beside telegram.py ----
    remuxing            \* the remux_inplace_safe call in progress, if any

schedVars == <<anchors, max_active, rooms, n_hrefs, remaining, seen, progress_map,
               active_jobs, jobs, pc, call, main_i, jobs_lock, cancel_event,
               stop_monitor>>

upVars == <<fs, now, quarantine_dir, delete_after_send, phase, parts, files, idx, last>>

\* main's STOP flag and the record of the run
runVars == <<STOP, swept, delivered>>

helperVars == <<fn, arg, ret>>

postVars == <<remuxing>>

vars == <<schedVars, upVars, runVars, helperVars, postVars>>

\* No remux_inplace_safe call is in progress.
NoRemux == [busy |-> FALSE, path |-> <<>>, src |-> <<>>]

\* No function has been called alone.
HelperIdle ==
    /\ remuxing = NoRemux
    /\ fn = "none"
    /\ arg = <<>>
    /\ ret = <<>>

(***************************************************************************)
(* telegram.py: configuration, paths and files                             *)
(***************************************************************************)
\* telegram.py: the defaults of the environment variables
MIN_FILE_MB == 5
MAX_FILE_GB == 0
FILE_STABLE_AGE == 30
PART_STABLE_AGE == 180
PART_MIN_MB == 5
RECOVER_PARTS == TRUE
MOVE_BAD_PARTS == TRUE
FORCE_SEND_ALL == FALSE
EXTENSIONS == {"mp4", "mkv", "mov", "m4v"}

\* seconds that pass in one step of the clock
TickStep == 90
\* steps of the clock in a run
MaxTicks == 1
\* most files on disk when the uploader starts
MaxFiles == 3
\* most "__tg_<time>" marks in the name of a file
MaxTg == 1

\* A path is DOWNLOAD_DIR/<dir>/<stem>[__tg_<time>...].<ext>[.part]. "s" is a
\* sub-folder of DOWNLOAD_DIR, "_bad" is DOWNLOAD_DIR/_bad, and "q" stands for
\* a directory outside DOWNLOAD_DIR.
Dirs == {"s", "_bad", "q"}
Stems == {"a", "b"}
Exts == {"mp4", "mkv"}

Paths ==
    {p \in [dir : Dirs, stem : Stems, ext : Exts, part : BOOLEAN, tg : 0..MaxTg] :
        /\ p.part => (p.tg = 0 /\ p.ext = "mp4")
        /\ p.dir = "q" => p.part}

Path(d, st, e, pt) == [dir |-> d, stem |-> st, ext |-> e, part |-> pt, tg |-> 0]

\* The files that may be on disk when the uploader starts, oldest id first.
InitialPaths ==
    << Path("s", "a", "mp4", TRUE), Path("s", "a", "mp4", FALSE),
       Path("s", "a", "mkv", FALSE), Path("s", "b", "mp4", FALSE) >>

\* A file: whose bytes it holds (id), whether ffmpeg wrote it (conv), its size
\* in MB and its st_mtime.
NoFile == [id |-> 0, conv |-> FALSE, size |-> 0, mtime |-> 0]

Exists(f, p) == f[p] # NoFile

\* detect_quarantine_dir: DOWNLOAD_DIR/_bad unless QUARANTINE_DIR is set.
QuarantineDirs == {"_bad", "q"}

\* Path.rglob from DOWNLOAD_DIR sees every directory below it.
UnderRoot(p) == p.dir \in {"s", "_bad"}

\* The uploader before it is started (the state of its variables in the runs
\* of the scheduler).
UploaderIdle ==
    /\ fs = [p \in Paths |-> NoFile]
    /\ now = 0
    /\ quarantine_dir = "_bad"
    /\ delete_after_send = TRUE
    /\ phase = "off"
    /\ parts = <<>>
    /\ files = <<>>
    /\ idx = 0
    /\ last = "none"
    /\ STOP = FALSE
    /\ swept = 0
    /\ delivered = {}

(***************************************************************************)
(* woman.py: collect_rooms                                                 *)
(***************************************************************************)
Locators == 1..MaxAnchors

\* An href is <<form, room>>: "rel" is "/room/", "abs" is
\* "https://chaturbate.com/room/", "other" is anything else (empty, "#", ...).
HrefForms == {"rel", "abs", "other"}

\* Lines 153-157: a relative href is made absolute; only https:// urls are kept.
\* The url of a room is identified with the room.
RECURSIVE AcceptedUrls(_)
AcceptedUrls(as) ==
    IF as = <<>> THEN <<>>
    ELSE LET a == Head(as)
         IN  IF a[1] \in {"rel", "abs"}
             THEN <<a[2]>> \o AcceptedUrls(Tail(as))
             ELSE AcceptedUrls(Tail(as))

\* A plausible slip: the list is returned without de-duplication.
DedupMissing(s) == s

\* Line 160: list(dict.fromkeys(urls)) keeps the first occurrence of each url.
RECURSIVE DedupRec(_)
DedupRec(s) ==
    IF s = <<>> THEN <<>>
    ELSE LET r == DedupRec(SubSeq(s, 1, Len(s) - 1))
             x == s[Len(s)]
         IN  IF \E i \in 1..Len(r) : r[i] = x THEN r ELSE Append(r, x)

Dedup(s) == DedupRec(s)

CollectRooms(as, limit_rooms) ==
    LET urls == Dedup(AcceptedUrls(as))
    IN  IF limit_rooms # 0 /\ Len(urls) > limit_rooms
        THEN SubSeq(urls, 1, limit_rooms)
        ELSE urls

(***************************************************************************)
(* woman.py: main, spawn_job, _runner, worker                              *)
(***************************************************************************)
Free == -1
MainThread == 0

\* A plausible slip: one locator too many in the initial batch.
InitialOneMore(rs, k) == SubSeq(rs, 1, IF k + 1 < Len(rs) THEN k + 1 ELSE Len(rs))

\* Line 449: rooms[: args.max_active]
Initial(rs, k) == SubSeq(rs, 1, IF k < Len(rs) THEN k ELSE Len(rs))

\* A plausible slip: the backlog is built in reverse, so that popleft takes the
\* last locator first.
RemainingReversed(rs, k) ==
    LET rest == SubSeq(rs, (IF k < Len(rs) THEN k ELSE Len(rs)) + 1, Len(rs))
    IN  [i \in 1..Len(rest) |-> rest[Len(rest) + 1 - i]]

\* Line 450: deque(rooms[args.max_active :])
Remaining(rs, k) == SubSeq(rs, (IF k < Len(rs) THEN k ELSE Len(rs)) + 1, Len(rs))

Range(s) == {s[i] : i \in 1..Len(s)}

Threads == 0..Len(jobs)
Runners == 1..Len(jobs)

NoCall == [url |-> 0, job |-> 0]

\* Lines 495-498: pop the first active job whose url equals the finished job's.
RemoveFirstUrl(act, u) ==
    IF \E i \in 1..Len(act) : jobs[act[i]].url = u
    THEN LET i == CHOOSE k \in 1..Len(act) :
                    /\ jobs[act[k]].url = u
                    /\ \A m \in 1..(k - 1) : jobs[act[m]].url # u
         IN  SubSeq(act, 1, i - 1) \o SubSeq(act, i + 1, Len(act))
    ELSE act

\* Lines 418-451: discovery, then the initial batch, the backlog and the seen-set.
MainCollect ==
    /\ UNCHANGED <<upVars, runVars, helperVars, postVars>>
    /\ pc[MainThread] = "collect"
    /\ LET rs == CollectRooms(anchors, DEFAULT_LIMIT_ROOMS)
           ini == Initial(rs, max_active)
       IN  /\ rooms' = rs
           /\ n_hrefs' = Len(AcceptedUrls(anchors))
           /\ anchors' = <<>>
           /\ IF rs = <<>>
              THEN /\ pc' = [pc EXCEPT ![MainThread] = "exit"]
                   /\ UNCHANGED <<remaining, seen, call, main_i>>
              ELSE /\ remaining' = Remaining(rs, max_active)
                   /\ seen' = Range(ini)
                   /\ main_i' = 1
                   /\ call' = [call EXCEPT ![MainThread] = [url |-> ini[1], job |-> 0]]
                   /\ pc' = [pc EXCEPT ![MainThread] = "spawn_map"]
    /\ UNCHANGED <<max_active, progress_map, active_jobs, jobs, jobs_lock,
                   cancel_event, stop_monitor>>

\* spawn_job, lines 476-482: the progress entry (under progress_lock, which is
\* taken and released within this step), the JobInfo and its thread object.
SpawnMap(t) ==
    /\ UNCHANGED <<upVars, runVars, helperVars, postVars>>
    /\ t \in Threads
    /\ pc[MainThread] # "exit"
    /\ pc[t] = "spawn_map"
    /\ LET n == Len(jobs) + 1
       IN  /\ progress_map' = [progress_map EXCEPT ![call[t].url] = "queued"]
           /\ jobs' = Append(jobs, [url |-> call[t].url, status |-> "queued"])
           /\ pc' = [x \in 0..n |-> IF x = n THEN "created"
                                     ELSE IF x = t THEN "spawn_append" ELSE pc[x]]
           /\ call' = [x \in 0..n |-> IF x = n THEN NoCall
                                       ELSE IF x = t THEN [call[t] EXCEPT !.job = n]
                                       ELSE call[x]]
    /\ UNCHANGED <<anchors, max_active, rooms, n_hrefs, remaining, seen, active_jobs,
                   main_i, jobs_lock, cancel_event, stop_monitor>>

\* spawn_job, lines 483-485: append under jobs_lock (a non-reentrant
\* threading.Lock: the caller waits while anybody, itself included, holds it),
\* start the thread, and return to the caller: main goes on with its for-loop
\* (lines 508-509), _runner leaves its `with jobs_lock` block (line 505).
SpawnAppend(t) ==
    /\ UNCHANGED <<upVars, runVars, helperVars, postVars>>
    /\ t \in Threads
    /\ pc[MainThread] # "exit"
    /\ pc[t] = "spawn_append"
    /\ jobs_lock = Free
    /\ active_jobs' = Append(active_jobs, call[t].job)
    /\ IF t = MainThread
       THEN LET ini == Initial(rooms, max_active)
            IN  IF main_i < Len(ini)
                THEN /\ main_i' = main_i + 1
                     /\ call' = [call EXCEPT ![t] = [url |-> ini[main_i + 1], job |-> 0]]
                     /\ pc' = [pc EXCEPT ![t] = "spawn_map", ![call[t].job] = "begin"]
                ELSE /\ main_i' = main_i + 1
                     /\ call' = [call EXCEPT ![t] = NoCall]
                     /\ pc' = [pc EXCEPT ![t] = "wait", ![call[t].job] = "begin"]
       ELSE /\ call' = [call EXCEPT ![t] = NoCall]
            /\ pc' = [pc EXCEPT ![t] = "finished", ![call[t].job] = "begin"]
            /\ UNCHANGED main_i
    /\ UNCHANGED <<anchors, max_active, rooms, n_hrefs, remaining, seen, progress_map,
                   jobs, jobs_lock, cancel_event, stop_monitor>>

\* _runner, lines 488-489.
RunnerBegin(j) ==
    /\ UNCHANGED <<upVars, runVars, helperVars, postVars>>
    /\ j \in Runners
    /\ pc[MainThread] # "exit"
    /\ pc[j] = "begin"
    /\ progress_map' = [progress_map EXCEPT ![jobs[j].url] = "running"]
    /\ pc' = [pc EXCEPT ![j] = "worker"]
    /\ UNCHANGED <<anchors, max_active, rooms, n_hrefs, remaining, seen, active_jobs,
                   jobs, call, main_i, jobs_lock, cancel_event, stop_monitor>>

\* worker, line 319.
WorkerStart(j) ==
    /\ UNCHANGED <<upVars, runVars, helperVars, postVars>>
    /\ j \in Runners
    /\ pc[MainThread] # "exit"
    /\ pc[j] = "worker"
    /\ jobs' = [jobs EXCEPT ![j].status = "running"]
    /\ pc' = [pc EXCEPT ![j] = "download"]
    /\ UNCHANGED <<anchors, max_active, rooms, n_hrefs, remaining, seen, progress_map,
                   active_jobs, call, main_i, jobs_lock, cancel_event, stop_monitor>>

\* worker, lines 321-343: the download ends and the job is "done" (lines 330,
\* 337) or "error" (line 340, or line 343 after an exception).
WorkerEnd(j) ==
    /\ UNCHANGED <<upVars, runVars, helperVars, postVars>>
    /\ j \in Runners
    /\ pc[MainThread] # "exit"
    /\ pc[j] = "download"
    /\ \E outcome \in {"done", "error"} :
          jobs' = [jobs EXCEPT ![j].status = outcome]
    /\ pc' = [pc EXCEPT ![j] = "report"]
    /\ UNCHANGED <<anchors, max_active, rooms, n_hrefs, remaining, seen, progress_map,
                   active_jobs, call, main_i, jobs_lock, cancel_event, stop_monitor>>

\* _runner, lines 491-492.
RunnerReport(j) ==
    /\ UNCHANGED <<upVars, runVars, helperVars, postVars>>
    /\ j \in Runners
    /\ pc[MainThread] # "exit"
    /\ pc[j] = "report"
    /\ progress_map' = [progress_map EXCEPT ![jobs[j].url] = jobs[j].status]
    /\ pc' = [pc EXCEPT ![j] = "remove"]
    /\ UNCHANGED <<anchors, max_active, rooms, n_hrefs, remaining, seen, active_jobs,
                   jobs, call, main_i, jobs_lock, cancel_event, stop_monitor>>

\* _runner, lines 493-498: the first `with jobs_lock` block.
RunnerRemove(j) ==
    /\ UNCHANGED <<upVars, runVars, helperVars, postVars>>
    /\ j \in Runners
    /\ pc[MainThread] # "exit"
    /\ pc[j] = "remove"
    /\ jobs_lock = Free
    /\ active_jobs' = RemoveFirstUrl(active_jobs, jobs[j].url)
    /\ pc' = [pc EXCEPT ![j] = "refill"]
    /\ UNCHANGED <<anchors, max_active, rooms, n_hrefs, remaining, seen, progress_map,
                   jobs, call, main_i, jobs_lock, cancel_event, stop_monitor>>

\* _runner, lines 500-505: the second `with jobs_lock` block. With an empty
\* backlog the lock is taken and released at once; otherwise the thread pops the
\* next locator and enters spawn_job with jobs_lock still held.
RunnerRefill(j) ==
    /\ UNCHANGED <<upVars, runVars, helperVars, postVars>>
    /\ j \in Runners
    /\ pc[MainThread] # "exit"
    /\ pc[j] = "refill"
    /\ jobs_lock = Free
    /\ IF remaining = <<>>
       THEN /\ pc' = [pc EXCEPT ![j] = "finished"]
            /\ UNCHANGED <<remaining, seen, call, jobs_lock>>
       ELSE /\ jobs_lock' = j
            /\ remaining' = Tail(remaining)
            /\ seen' = seen \cup {Head(remaining)}
            /\ call' = [call EXCEPT ![j] = [url |-> Head(remaining), job |-> 0]]
            /\ pc' = [pc EXCEPT ![j] = "spawn_map"]
    /\ UNCHANGED <<anchors, max_active, rooms, n_hrefs, progress_map, active_jobs,
                   jobs, main_i, cancel_event, stop_monitor>>

\* main, lines 513-517: one turn of the wait loop.
MainWait ==
    /\ UNCHANGED <<upVars, runVars, helperVars, postVars>>
    /\ pc[MainThread] = "wait"
    /\ jobs_lock = Free
    /\ IF active_jobs = <<>> /\ remaining = <<>>
       THEN pc' = [pc EXCEPT ![MainThread] = "post"]
       ELSE UNCHANGED pc
    /\ UNCHANGED <<anchors, max_active, rooms, n_hrefs, remaining, seen, progress_map,
                   active_jobs, jobs, call, main_i, jobs_lock, cancel_event,
                   stop_monitor>>

\* main, lines 518-520: KeyboardInterrupt in the wait loop.
Interrupt ==
    /\ UNCHANGED <<upVars, runVars, helperVars, postVars>>
    /\ pc[MainThread] = "wait"
    /\ cancel_event' = TRUE
    /\ pc' = [pc EXCEPT ![MainThread] = "post"]
    /\ UNCHANGED <<anchors, max_active, rooms, n_hrefs, remaining, seen, progress_map,
                   active_jobs, jobs, call, main_i, jobs_lock, stop_monitor>>

\* main, lines 522-551: post-processing and the end of the process (the runner
\* threads are daemons and end with it). The post-processing goes through every
\* entry of progress_map, the entries of the jobs still running included, and
\* calls try_finalize_partial on its tmpfile and remux_inplace_safe on its
\* outfile (lines 538-544), then try_finalize_partial on every *.part under the
\* download directory (line 545, sweep_finalize_partials); none of them looks
\* at the age of the file or at the state of the job.
MainPost ==
    /\ UNCHANGED <<upVars, runVars, helperVars, postVars>>
    /\ pc[MainThread] = "post"
    /\ stop_monitor' = TRUE
    /\ pc' = [pc EXCEPT ![MainThread] = "exit"]
    /\ UNCHANGED <<anchors, max_active, rooms, n_hrefs, remaining, seen, progress_map,
                   active_jobs, jobs, call, main_i, jobs_lock, cancel_event>>

\* The inputs: the anchors of the page, named in order of first appearance,
\* and the --max-active argument.
RECURSIVE SeqsUpTo(_, _)
SeqsUpTo(S, n) ==
    IF n = 0 THEN {<<>>}
    ELSE LET shorter == SeqsUpTo(S, n - 1)
         IN  shorter \cup {Append(s, x) : s \in shorter, x \in S}

InOrderOfAppearance(as) ==
    \A i \in 1..Len(as) :
        \/ as[i][2] = 1
        \/ \E m \in 1..(i - 1) : as[m][2] >= as[i][2] - 1

AnchorLists ==
    {as \in SeqsUpTo(HrefForms \X Locators, MaxAnchors) : InOrderOfAppearance(as)}

Init ==
    /\ anchors \in AnchorLists
    /\ max_active \in 1..MaxActiveArg
    /\ rooms = <<>>
    /\ n_hrefs = 0
    /\ remaining = <<>>
    /\ seen = {}
    /\ progress_map = [u \in Locators |-> "none"]
    /\ active_jobs = <<>>
    /\ jobs = <<>>
    /\ pc = [t \in {MainThread} |-> "collect"]
    /\ call = [t \in {MainThread} |-> NoCall]
    /\ main_i = 0
    /\ jobs_lock = Free
    /\ cancel_event = FALSE
    /\ stop_monitor = FALSE
    /\ UploaderIdle
    /\ HelperIdle

MainStep ==
    \/ MainCollect
    \/ SpawnMap(MainThread)
    \/ SpawnAppend(MainThread)
    \/ MainWait
    \/ MainPost

RunnerStep(j) ==
    \/ RunnerBegin(j)
    \/ WorkerStart(j)
    \/ WorkerEnd(j)
    \/ RunnerReport(j)
    \/ RunnerRemove(j)
    \/ RunnerRefill(j)
    \/ SpawnMap(j)
    \/ SpawnAppend(j)

Next ==
    \/ MainCollect
    \/ \E t \in Threads : SpawnMap(t)
    \/ \E t \in Threads : SpawnAppend(t)
    \/ \E j \in Runners : RunnerBegin(j)
    \/ \E j \in Runners : WorkerStart(j)
    \/ \E j \in Runners : WorkerEnd(j)
    \/ \E j \in Runners : RunnerReport(j)
    \/ \E j \in Runners : RunnerRemove(j)
    \/ \E j \in Runners : RunnerRefill(j)
    \/ MainWait
    \/ Interrupt
    \/ MainPost

Spec == Init /\ [][Next]_vars

\* Every thread that can take a step eventually takes one: the operating system
\* schedules every thread, and every download ends. The interrupt is the user's
\* and is never forced.
FairSpec ==
    /\ Spec
    /\ WF_vars(MainStep)
    /\ \A j \in 1..MaxAnchors : WF_vars(RunnerStep(j))

(***************************************************************************)
(* telegram.py: ffmpeg helpers                                             *)
(***************************************************************************)
\* What ffmpeg writes at time t from the file c. The output is taken to have
\* the size of its input.
Converted(c, t) == [id |-> c.id, conv |-> TRUE, size |-> c.size, mtime |-> t]

\* One call of remux_copy, transcode_preserve_ar, remux_to_mp4_copy or
\* remux_to_mp4_copy_v_copy_aac with ffmpeg installed: `ffmpeg -y -i src ... out`.
\* When ffmpeg succeeds, out holds the new file, whatever was there before; when
\* it fails, the handler unlinks out if it exists. ffmpeg refuses to write the
\* file it reads and exits with an error, so a call with out = src fails.
FfmpegCall(f, src, out, ok, t) ==
    IF ok /\ src # out
    THEN [f EXCEPT ![out] = Converted(f[src], t)]
    ELSE [f EXCEPT ![out] = NoFile]

\* A call in which ffmpeg exits with status 0 and leaves an output that holds no
\* data (nothing was encoded): check_call returns and out.exists() is True.
FfmpegEmpty(f, src, out, t) ==
    IF src # out
    THEN [f EXCEPT ![out] = [Converted(f[src], t) EXCEPT !.size = 0]]
    ELSE [f EXCEPT ![out] = NoFile]

\* p.with_suffix("") and then .with_suffix("." + container)
OutBase(p, e) == [p EXCEPT !.part = FALSE, !.ext = e]

\* Outcome of a cascade: -1 when ffmpeg is not installed (every tier returns
\* False at once), 0 when every tier fails, k when tier k is the first to succeed;
\* for finalize_part_file, 5 when tier 1 ends with an output that holds no data.
FinalizeOutcomes == -1..5
ConvertOutcomes == -1..3

\* finalize_part_file: remux mp4, remux mkv, transcode mp4, transcode mkv.
\* `out` is the returned path, <<>> for None.
FinalizePartFile(f, p, r, t) ==
    LET mp4 == OutBase(p, "mp4")
        mkv == OutBase(p, "mkv")
        f1 == FfmpegCall(f, p, mp4, r = 1, t)
        f2 == FfmpegCall(f1, p, mkv, r = 2, t)
        f3 == FfmpegCall(f2, p, mp4, r = 3, t)
        f4 == FfmpegCall(f3, p, mkv, r = 4, t)
    IN  CASE r = -1 -> [fs |-> f, out |-> <<>>]
          [] r = 1 -> [fs |-> f1, out |-> <<mp4>>]
          [] r = 2 -> [fs |-> f2, out |-> <<mkv>>]
          [] r = 3 -> [fs |-> f3, out |-> <<mp4>>]
          [] r = 4 -> [fs |-> f4, out |-> <<mkv>>]
          [] r = 5 -> [fs |-> FfmpegEmpty(f, p, mp4, t), out |-> <<mp4>>]
          [] OTHER -> [fs |-> f4, out |-> <<>>]

\* The name ensure_streamable_mp4 gives its tiers 1 and 2 (lines 307-310).
StreamTarget(f, src) ==
    LET target == [src EXCEPT !.ext = "mp4"]
    IN  IF Exists(f, target) THEN [target EXCEPT !.tg = @ + 1] ELSE target

\* ensure_streamable_mp4: `probe` is the answer of is_mp4_h264_aac's ffprobe.
EnsureStreamableMp4(f, src, probe, r, t) ==
    LET target == StreamTarget(f, src)
        base_mp4 == [src EXCEPT !.ext = "mp4"]
        f1 == FfmpegCall(f, src, target, r = 1, t)
        f2 == FfmpegCall(f1, src, target, r = 2, t)
        f3 == FfmpegCall(f2, src, base_mp4, r = 3, t)
    IN  CASE src.ext = "mp4" /\ probe -> [fs |-> f, mp4 |-> src, temps |-> {}]
          [] ~(src.ext = "mp4" /\ probe) /\ r = -1 ->
                [fs |-> f, mp4 |-> src, temps |-> {}]
          [] ~(src.ext = "mp4" /\ probe) /\ r = 1 ->
                [fs |-> f1, mp4 |-> target, temps |-> {target}]
          [] ~(src.ext = "mp4" /\ probe) /\ r = 2 ->
                [fs |-> f2, mp4 |-> target, temps |-> {target}]
          [] ~(src.ext = "mp4" /\ probe) /\ r = 3 /\ base_mp4 # src ->
                [fs |-> f3, mp4 |-> base_mp4, temps |-> {base_mp4}]
          [] OTHER -> [fs |-> f3, mp4 |-> src, temps |-> {}]

(***************************************************************************)
(* telegram.py: recover_partials, list_ready_files, send_one, run_once     *)
(***************************************************************************)
\* Order of pathlib paths: by directory, then by file name.
PathKey(p) ==
    (CASE p.dir = "_bad" -> 0 [] p.dir = "q" -> 1 [] OTHER -> 2) * 64
    + (IF p.stem = "a" THEN 0 ELSE 1) * 32
    + p.tg * 8
    + (IF p.ext = "mkv" THEN 0 ELSE 1) * 2
    + (IF p.part THEN 1 ELSE 0)

RECURSIVE SortedPaths(_)
SortedPaths(S) ==
    IF S = {} THEN <<>>
    ELSE LET m == CHOOSE x \in S : \A y \in S : PathKey(x) <= PathKey(y)
         IN  <<m>> \o SortedPaths(S \ {m})

\* Line 372: sorted(root.rglob("*.part"))
PartFiles(f) == SortedPaths({p \in Paths : UnderRoot(p) /\ Exists(f, p) /\ p.part})

\* os.rename
Rename(f, a, b) == IF a = b THEN f ELSE [f EXCEPT ![b] = f[a], ![a] = NoFile]

\* list_ready_files, lines 428-471: the files that pass the filters.
Ready(f, t) ==
    {p \in Paths :
        /\ UnderRoot(p)
        /\ Exists(f, p)
        /\ ~p.part
        /\ p.ext \in EXTENSIONS
        /\ f[p].size >= MIN_FILE_MB
        /\ ~(MAX_FILE_GB > 0 /\ f[p].size > MAX_FILE_GB * 1024)
        /\ (FORCE_SEND_ALL \/ t - f[p].mtime >= FILE_STABLE_AGE)}

\* A list_ready_files that returns the candidates in the order rglob found them.
UnsortedCandidates(S, f) ==
    {s \in [1..Cardinality(S) -> S] :
        \A i, k \in 1..Cardinality(S) : i # k => s[i] # s[k]}

\* list_ready_files, lines 474-480: candidates.sort(key=mtime_safe). Files of
\* equal st_mtime keep the order rglob found them in, which is the directory's.
SortedByMtime(S, f) ==
    {s \in [1..Cardinality(S) -> S] :
        /\ \A i, k \in 1..Cardinality(S) : i # k => s[i] # s[k]
        /\ \A i, k \in 1..Cardinality(S) : i < k => f[s[i]].mtime <= f[s[k]].mtime}

\* main, lines 651-653, and run_once, lines 600-601 with recover_partials,
\* lines 370-372: a cycle starts.
StartCycle ==
    /\ UNCHANGED <<schedVars, helperVars, postVars>>
    /\ phase = "due"
    /\ phase' = "recover"
    /\ parts' = IF RECOVER_PARTS THEN PartFiles(fs) ELSE <<>>
    /\ files' = <<>>
    /\ idx' = 0
    /\ last' = "none"
    /\ swept' = IF STOP /\ RECOVER_PARTS THEN swept + 1 ELSE swept
    /\ UNCHANGED <<fs, now, quarantine_dir, delete_after_send, STOP, delivered>>

\* recover_partials, lines 372-402: one turn of the loop.
RecoverOne ==
    /\ UNCHANGED <<schedVars, runVars, helperVars, postVars>>
    /\ phase = "recover"
    /\ parts # <<>>
    /\ parts' = Tail(parts)
    /\ LET pf == Head(parts)
       IN  IF \/ ~Exists(fs, pf)
              \/ now - fs[pf].mtime < PART_STABLE_AGE
              \/ fs[pf].size < PART_MIN_MB
           THEN /\ last' = "skipped"
                /\ UNCHANGED fs
           ELSE \E r \in FinalizeOutcomes :
                  LET res == FinalizePartFile(fs, pf, r, now)
                      dest == [pf EXCEPT !.dir = quarantine_dir]
                  IN  IF res.out # <<>> /\ Exists(res.fs, res.out[1])
                      THEN /\ fs' = [res.fs EXCEPT ![pf] = NoFile]
                           /\ last' = "finalized"
                      ELSE IF MOVE_BAD_PARTS
                      THEN /\ fs' = Rename(res.fs, pf, dest)
                           /\ last' = "quarantined"
                      ELSE /\ fs' = res.fs
                           /\ last' = "unrecovered"
    /\ UNCHANGED <<now, quarantine_dir, delete_after_send, phase, files, idx>>

\* run_once, lines 604-607: the scan.
Scan ==
    /\ UNCHANGED <<schedVars, runVars, helperVars, postVars>>
    /\ phase = "recover"
    /\ parts = <<>>
    /\ files' \in SortedByMtime(Ready(fs, now), fs)
    /\ idx' = 1
    /\ phase' = IF files' = <<>> THEN "idle" ELSE "send"
    /\ last' = "none"
    /\ UNCHANGED <<fs, now, quarantine_dir, delete_after_send, parts>>

\* upload_via_bot, lines 545-557 (569-573): after a successful request the
\* files in temps other than path are unlinked.
CleanTemps(f, temps, path) ==
    [q \in Paths |-> IF q \in temps /\ q # path THEN NoFile ELSE f[q]]

\* run_once, lines 609-616: one turn of the loop over files, with send_one and
\* upload_via_bot. p.stat() at line 610 is outside the try: for a file that is
\* gone it raises, run_once ends, and main (lines 660-662) goes on to the next
\* cycle. `sent` is whether the request ended with r.ok.
SendOne ==
    /\ UNCHANGED <<schedVars, helperVars, postVars>>
    /\ phase = "send"
    /\ LET p == files[idx]
           after == IF idx < Len(files) THEN "send" ELSE "idle"
       IN  IF ~Exists(fs, p)
           THEN /\ phase' = "idle"
                /\ last' = "aborted"
                /\ UNCHANGED <<fs, idx, delivered>>
           ELSE \E probe \in BOOLEAN, r \in ConvertOutcomes, sent \in BOOLEAN :
                  LET es == EnsureStreamableMp4(fs, p, probe, r, now)
                  IN  /\ StreamTarget(fs, p) \in Paths
                      /\ idx' = idx + 1
                      /\ phase' = after
                      /\ IF ~Exists(es.fs, es.mp4)
                         THEN \* mp4_path.stat() at line 518 raises; caught at line 615
                              /\ fs' = es.fs
                              /\ last' = "failed"
                              /\ UNCHANGED delivered
                         ELSE IF sent
                         THEN /\ fs' = LET c == CleanTemps(es.fs, es.temps, p)
                                       IN  IF delete_after_send
                                           THEN [c EXCEPT ![p] = NoFile]
                                           ELSE c
                              /\ last' = "sent"
                              /\ delivered' = delivered \cup {fs[p].id}
                         ELSE /\ fs' = es.fs
                              /\ last' = "failed"
                              /\ UNCHANGED delivered
    /\ UNCHANGED <<now, quarantine_dir, delete_after_send, parts, files, STOP, swept>>

\* main, lines 651-657: the sleep between two cycles ends with STOP not set;
\* time passes and the next cycle is due. run_once has returned, so its locals (files, the position in
\* the loop) are gone. The operations of a cycle are taken to be instantaneous:
\* recover_partials' `now` of line 371 and the time.time() of the scan are the
\* same instant.
Tick ==
    /\ UNCHANGED <<schedVars, runVars, helperVars, postVars>>
    /\ phase = "idle"
    /\ ~STOP
    /\ now < PART_STABLE_AGE + MaxTicks * TickStep
    /\ now' = now + TickStep
    /\ phase' = "due"
    /\ files' = <<>>
    /\ idx' = 0
    /\ last' = "none"
    /\ UNCHANGED <<fs, quarantine_dir, delete_after_send, parts>>

\* The scheduler before it is started (the state of its variables in the runs
\* of the uploader).
SchedIdle ==
    /\ anchors = <<>>
    /\ max_active = 1
    /\ rooms = <<>>
    /\ n_hrefs = 0
    /\ remaining = <<>>
    /\ seen = {}
    /\ progress_map = [u \in Locators |-> "none"]
    /\ active_jobs = <<>>
    /\ jobs = <<>>
    /\ pc = [t \in {MainThread} |-> "off"]
    /\ call = [t \in {MainThread} |-> NoCall]
    /\ main_i = 0
    /\ jobs_lock = Free
    /\ cancel_event = FALSE
    /\ stop_monitor = FALSE

\* The files on disk when the uploader starts: at most MaxFiles of
\* InitialPaths, each either of the minimum size and last written
\* PART_STABLE_AGE seconds ago, or of the minimum size and written just now, or
\* below the minimum size.
InitialFiles ==
    { NoFile,
      [id |-> 1, conv |-> FALSE, size |-> MIN_FILE_MB, mtime |-> 0],
      [id |-> 1, conv |-> FALSE, size |-> MIN_FILE_MB, mtime |-> PART_STABLE_AGE],
      [id |-> 1, conv |-> FALSE, size |-> MIN_FILE_MB - 1, mtime |-> 0] }

InitialFilesystems ==
    {[p \in Paths |->
        IF \E k \in 1..Len(InitialPaths) : InitialPaths[k] = p /\ a[k] # NoFile
        THEN LET k == CHOOSE k \in 1..Len(InitialPaths) : InitialPaths[k] = p
             IN  [a[k] EXCEPT !.id = k]
        ELSE NoFile] :
     a \in {b \in [1..Len(InitialPaths) -> InitialFiles] :
               Cardinality({k \in 1..Len(InitialPaths) : b[k] # NoFile}) <= MaxFiles}}

UploaderInit ==
    /\ SchedIdle
    /\ HelperIdle
    /\ fs \in InitialFilesystems
    /\ now = PART_STABLE_AGE
    /\ quarantine_dir \in QuarantineDirs
    /\ delete_after_send \in BOOLEAN
    /\ phase = "due"
    /\ parts = <<>>
    /\ files = <<>>
    /\ idx = 0
    /\ last = "none"
    /\ STOP = FALSE
    /\ swept = 0
    /\ delivered = {}

UploaderNext ==
    \/ StartCycle
    \/ RecoverOne
    \/ Scan
    \/ SendOne
    \/ Tick

UploaderSpec == UploaderInit /\ [][UploaderNext]_vars

\* One call of run_once, made at any of the times a cycle can start at.
PassInit ==
    /\ SchedIdle
    /\ HelperIdle
    /\ fs \in InitialFilesystems
    /\ now \in {PART_STABLE_AGE + k * TickStep : k \in 0..MaxTicks}
    /\ quarantine_dir \in QuarantineDirs
    /\ delete_after_send \in BOOLEAN
    /\ phase = "due"
    /\ parts = <<>>
    /\ files = <<>>
    /\ idx = 0
    /\ last = "none"
    /\ STOP = FALSE
    /\ swept = 0
    /\ delivered = {}

PassNext ==
    \/ StartCycle
    \/ RecoverOne
    \/ Scan
    \/ SendOne

PassSpec == PassInit /\ [][PassNext]_vars

(***************************************************************************)
(* telegram.py: a pass over a folder whose quarantine is not empty         *)
(***************************************************************************)
\* A partial in a watched folder, the partials of the same name that earlier
\* runs moved to the two quarantine locations, and one final file.
QuarantinePaths ==
    << Path("s", "a", "mp4", TRUE), Path("_bad", "a", "mp4", TRUE),
       Path("q", "a", "mp4", TRUE), Path("s", "b", "mp4", FALSE) >>

QuarantineFilesystems ==
    {[p \in Paths |->
        IF \E k \in 1..Len(QuarantinePaths) : QuarantinePaths[k] = p /\ a[k] # NoFile
        THEN LET k == CHOOSE k \in 1..Len(QuarantinePaths) : QuarantinePaths[k] = p
             IN  [a[k] EXCEPT !.id = k]
        ELSE NoFile] :
     a \in [1..Len(QuarantinePaths) -> InitialFiles]}

\* One call of run_once on such a folder.
QuarantineInit ==
    /\ SchedIdle
    /\ HelperIdle
    /\ fs \in QuarantineFilesystems
    /\ now \in {PART_STABLE_AGE + k * TickStep : k \in 0..MaxTicks}
    /\ quarantine_dir \in QuarantineDirs
    /\ delete_after_send \in BOOLEAN
    /\ phase = "due"
    /\ parts = <<>>
    /\ files = <<>>
    /\ idx = 0
    /\ last = "none"
    /\ STOP = FALSE
    /\ swept = 0
    /\ delivered = {}

QuarantineSpec == QuarantineInit /\ [][PassNext]_vars

(***************************************************************************)
(* telegram.py: the WATCH loop without an end                              *)
(***************************************************************************)
\* The files after TickStep more seconds, with the clock held where it is: the
\* code reads st_mtime only to subtract it from time.time() and to compare the
\* age with FILE_STABLE_AGE and PART_STABLE_AGE (lines 374-379 and 410-415), and
\* to sort, so a file is as old as now - mtime says, and an age beyond
\* PART_STABLE_AGE is kept as the oldest age the clock can show.
Aged(f) ==
    [p \in Paths |->
        IF Exists(f, p)
        THEN [f[p] EXCEPT !.mtime = IF @ > TickStep THEN @ - TickStep ELSE 0]
        ELSE NoFile]

\* main, lines 651-657: the sleep between two cycles, any number of times.
Sleep ==
    /\ UNCHANGED <<schedVars, runVars, helperVars, postVars>>
    /\ phase = "idle"
    /\ ~STOP
    /\ fs' = Aged(fs)
    /\ phase' = "due"
    /\ files' = <<>>
    /\ idx' = 0
    /\ last' = "none"
    /\ UNCHANGED <<now, quarantine_dir, delete_after_send, parts>>

\* The uploader started on a folder that holds one partial, <a>.mp4.part, and
\* possibly the final file of the same name.
WatchInit ==
    /\ UploaderInit
    /\ \A p \in Paths : Exists(fs, p) => (p.stem = "a" /\ p.ext = "mp4")
    /\ \E p \in Paths : p.part /\ Exists(fs, p)

WatchNext ==
    \/ StartCycle
    \/ RecoverOne
    \/ Scan
    \/ SendOne
    \/ Sleep

\* The loop of main never stops by itself: each step that can be taken is
\* taken, cycle after cycle.
WatchSpec == WatchInit /\ [][WatchNext]_vars /\ WF_vars(WatchNext)

(***************************************************************************)
(* telegram.py: shutdown                                                   *)
(***************************************************************************)
\* handle_sigterm, lines 624-627: SIGINT or SIGTERM arrives while main runs; the
\* handler sets STOP and returns, and whatever was running goes on.
HandleSigterm ==
    /\ UNCHANGED <<schedVars, helperVars, postVars>>
    /\ phase \in {"due", "recover", "send", "idle"}
    /\ ~STOP
    /\ STOP' = TRUE
    /\ UNCHANGED <<upVars, swept, delivered>>

\* main, lines 651-657 and 664-668: STOP is read in the sleep loop and at the
\* head of `while not STOP`; when it is set, main returns and the process ends.
\* Nothing is called between the end of the loop and the return.
MainExit ==
    /\ UNCHANGED <<schedVars, helperVars, postVars>>
    /\ phase = "idle"
    /\ STOP
    /\ phase' = "exit"
    /\ UNCHANGED <<fs, now, quarantine_dir, delete_after_send, parts, files, idx, last>>
    /\ UNCHANGED runVars

\* The uploader started in WATCH mode with the default settings
\* (DELETE_AFTER_SEND on, the quarantine under DOWNLOAD_DIR).
ShutdownInit ==
    /\ UploaderInit
    /\ delete_after_send
    /\ quarantine_dir = "_bad"

\* The uploader in WATCH mode with a shutdown signal arriving at any moment.
ShutdownNext ==
    \/ StartCycle
    \/ RecoverOne
    \/ Scan
    \/ SendOne
    \/ Tick
    \/ HandleSigterm
    \/ MainExit

ShutdownSpec == ShutdownInit /\ [][ShutdownNext]_vars

(***************************************************************************)
(* woman.py's post-processing beside the uploader                          *)
(***************************************************************************)
\* The final files woman.py writes: <subdir>/<stamp>_<username>.mp4 (lines
\* 176-184).
IsOutfile(p) == p.dir = "s" /\ ~p.part /\ p.ext = "mp4" /\ p.tg = 0

\* woman.py, remux_inplace_safe(path), lines 220-236: called by worker on the
\* outfile when the download ends (line 326) and again by main on every outfile
\* when all jobs are over (lines 546-548). ffmpeg starts to read path and to
\* write path + ".__tmp__.mp4", a name the scan of telegram.py skips. The two
\* programs share no lock.
RemuxBegin ==
    /\ UNCHANGED <<schedVars, runVars, helperVars>>
    /\ ~remuxing.busy
    /\ \E p \in Paths :
          /\ IsOutfile(p)
          /\ Exists(fs, p)
          /\ remuxing' = [busy |-> TRUE, path |-> p, src |-> fs[p]]
    /\ UNCHANGED upVars

\* remux_inplace_safe, lines 237-250: ffmpeg has ended; on success
\* os.replace(tmp_out, path) puts the new file at path, whether or not path is
\* still there; on failure tmp_out is removed.
RemuxEnd ==
    /\ UNCHANGED <<schedVars, runVars, helperVars>>
    /\ remuxing.busy
    /\ remuxing' = NoRemux
    /\ \E ok \in BOOLEAN :
          fs' = IF ok
                THEN [fs EXCEPT ![remuxing.path] = Converted(remuxing.src, now)]
                ELSE fs
    /\ UNCHANGED <<now, quarantine_dir, delete_after_send, phase, parts, files, idx, last>>

\* One call of run_once while woman.py post-processes its outfiles.
PipelineNext ==
    \/ StartCycle
    \/ RecoverOne
    \/ Scan
    \/ SendOne
    \/ RemuxBegin
    \/ RemuxEnd

PipelineSpec == UploaderInit /\ [][PipelineNext]_vars

(***************************************************************************)
(* Functions taken alone                                                   *)
(***************************************************************************)
\* telegram.py, finalize_part_file: its tiers in the order it tries them.
FinalizeTiers == <<"remux_mp4", "remux_mkv", "transcode_mp4", "transcode_mkv">>

\* woman.py, try_finalize_partial: remux_inplace_safe (ffmpeg -c:v libx264
\* -c:a aac, lines 229-234) and run_ffmpeg_transcode with scale=-2:720.
PartialTiers == <<"x264_inplace", "x264_720">>

\* The ffmpeg calls that encode the video again.
ReencodeCalls == {"transcode_mp4", "transcode_mkv", "x264_inplace", "x264_720"}

\* `if tier(...): return ...` for each tier in turn: the ffmpeg calls issued
\* when `can` is the set of tiers that succeed.
RECURSIVE CascadeRec(_, _)
CascadeRec(tiers, can) ==
    IF tiers = <<>> THEN <<>>
    ELSE IF Head(tiers) \in can THEN <<Head(tiers)>>
    ELSE <<Head(tiers)>> \o CascadeRec(Tail(tiers), can)

Cascade(tiers, can) == CascadeRec(tiers, can)

\* finalize_part_file(p): the ffmpeg calls it issues and whether it returns a
\* path. Without ffmpeg every tier returns False before any call.
FinalizeCalls(installed, can) ==
    LET calls == IF installed THEN Cascade(FinalizeTiers, can) ELSE <<>>
    IN  [calls |-> calls,
         ok |-> calls # <<>> /\ calls[Len(calls)] \in can]

\* try_finalize_partial(tmp_path), lines 264-294, with do_720_when_fail: the
\* ffmpeg calls it issues and what it returns. Nothing is called when the
\* partial is missing or the mp4 is already there; without ffmpeg
\* remux_inplace_safe returns True at once and the partial is renamed.
TryFinalizePartialCalls(tmp_exists, mp4_exists, installed, can) ==
    IF ~tmp_exists THEN [calls |-> <<>>, ok |-> FALSE]
    ELSE IF mp4_exists THEN [calls |-> <<>>, ok |-> TRUE]
    ELSE IF ~installed THEN [calls |-> <<>>, ok |-> TRUE]
    ELSE LET calls == Cascade(PartialTiers, can)
         IN  [calls |-> calls, ok |-> calls[Len(calls)] \in can]

\* The tiers that succeed on a partial: any set of them. can_copy is whether
\* the streams of the partial can be re-wrapped without encoding.
SetOf(seq) == {seq[i] : i \in 1..Len(seq)}

CallFinalizePartFile ==
    /\ UNCHANGED <<schedVars, upVars, runVars, postVars>>
    /\ fn = "none"
    /\ \E installed \in BOOLEAN, can \in SUBSET SetOf(FinalizeTiers) :
          /\ fn' = "finalize_part_file"
          /\ arg' = [installed |-> installed, can |-> can,
                     can_copy |-> "remux_mp4" \in can]
          /\ ret' = FinalizeCalls(installed, can)

CallTryFinalizePartial ==
    /\ UNCHANGED <<schedVars, upVars, runVars, postVars>>
    /\ fn = "none"
    /\ \E tmp_exists \in BOOLEAN, mp4_exists \in BOOLEAN, installed \in BOOLEAN,
          can \in SUBSET SetOf(PartialTiers), can_copy \in BOOLEAN :
          /\ fn' = "try_finalize_partial"
          /\ arg' = [tmp_exists |-> tmp_exists, mp4_exists |-> mp4_exists,
                     installed |-> installed, can |-> can, can_copy |-> can_copy]
          /\ ret' = TryFinalizePartialCalls(tmp_exists, mp4_exists, installed, can)

\* telegram.py, ensure_streamable_mp4, lines 312-326: its tiers in the order it
\* tries them; the third is transcode_preserve_ar(src, base, container="mp4").
StreamTiers == <<"remux_to_mp4_copy", "remux_to_mp4_copy_v_copy_aac", "transcode_mp4">>

\* The ffmpeg calls that copy both streams (-c copy), and those that copy the
\* video and encode only the audio (-c:v copy -c:a aac).
RemuxCopyCalls == {"remux_mp4", "remux_mkv", "remux_to_mp4_copy"}
AudioRepairCalls == {"remux_to_mp4_copy_v_copy_aac"}

\* ensure_streamable_mp4(src): the ffmpeg calls it issues. A file that
\* is_mp4_h264_aac accepts is returned as it is; without ffmpeg every tier
\* returns False before any call.
EnsureStreamableCalls(streamable, installed, can) ==
    LET calls == IF streamable \/ ~installed THEN <<>> ELSE Cascade(StreamTiers, can)
    IN  [calls |-> calls,
         ok |-> streamable \/ (calls # <<>> /\ calls[Len(calls)] \in can)]

CallEnsureStreamableMp4 ==
    /\ UNCHANGED <<schedVars, upVars, runVars, postVars>>
    /\ fn = "none"
    /\ \E streamable \in BOOLEAN, installed \in BOOLEAN,
          can \in SUBSET SetOf(StreamTiers) :
          /\ fn' = "ensure_streamable_mp4"
          /\ arg' = [streamable |-> streamable, installed |-> installed, can |-> can]
          /\ ret' = EnsureStreamableCalls(streamable, installed, can)

\* An is_stable that asks for more than min_age.
IsStableStrict(exists, mtime, t, min_age) ==
    IF exists
    THEN [value |-> t - mtime > min_age, raised |-> FALSE]
    ELSE [value |-> FALSE, raised |-> FALSE]

\* telegram.py, is_stable(path, min_age), lines 410-415: path.stat() raises
\* FileNotFoundError for a path that is gone, and the handler returns False.
IsStable(exists, mtime, t, min_age) ==
    IF exists
    THEN [value |-> t - mtime >= min_age, raised |-> FALSE]
    ELSE [value |-> FALSE, raised |-> FALSE]

CallIsStable ==
    /\ UNCHANGED <<schedVars, upVars, runVars, postVars>>
    /\ fn = "none"
    /\ \E exists \in BOOLEAN, mtime \in 0..MaxClock, t \in 0..MaxClock,
          min_age \in 0..MaxClock :
          /\ fn' = "is_stable"
          /\ arg' = [exists |-> exists, mtime |-> mtime, now |-> t,
                     min_age |-> min_age]
          /\ ret' = IsStable(exists, mtime, t, min_age)

\* An upload_via_bot that gives up on files above one MB.
UploadTransportsCapped(requests_installed, exists, size) ==
    IF requests_installed /\ exists /\ size <= 1 THEN <<"bot">> ELSE <<>>

\* telegram.py, upload_via_bot, lines 496-579: the transports it attempts, in
\* order, for a file of `size` MB. Without the requests library it returns
\* False at once (lines 501-505); mp4_path.stat() raises for a missing file
\* (line 518); otherwise the file is posted to the Bot API's sendVideo (lines
\* 517, 546 and 565), whatever its size. There is no other transport.
UploadTransports(requests_installed, exists, size) ==
    IF requests_installed /\ exists THEN <<"bot">> ELSE <<>>

\* What ffprobe reports for a field of the video stream or of the format: no
\* such key (or null), a text that is not a number ("N/A"), or a number up to
\* MaxHint.
MaxHint == 1
Missing == 0 - 1
Bad == 0 - 2
ProbeValues == {Missing, Bad} \cup 0..MaxHint

\* The answers of ffprobe_json: `video` is whether there is a video stream;
\* sdur is the stream's duration and fdur the format's. When ffprobe fails the
\* answer is {}: no stream and no format.
ProbeAnswers ==
    [video : BOOLEAN, width : ProbeValues, height : ProbeValues,
     sdur : ProbeValues, fdur : ProbeValues]

ProbeFailed ==
    [video |-> FALSE, width |-> Missing, height |-> Missing,
     sdur |-> Missing, fdur |-> Missing]

\* probe_video_params, lines 159-186. int(float(x or 0)) gives 0 for a missing
\* key; a text that is not a number raises, and then width and height are both
\* 0 (lines 170-171); a duration is read when it is truthy and parses, first
\* from the stream, then, if still 0, from the format.
ProbeVideoParams(info) ==
    LET dims_ok == info.video /\ info.width # Bad /\ info.height # Bad
        width == IF dims_ok /\ info.width # Missing THEN info.width ELSE 0
        height == IF dims_ok /\ info.height # Missing THEN info.height ELSE 0
        sdur == IF info.video /\ info.sdur \notin {Missing, Bad} THEN info.sdur ELSE 0
        fdur == IF info.fdur \notin {Missing, Bad} THEN info.fdur ELSE 0
    IN  [w |-> width, h |-> height, dur |-> IF sdur = 0 THEN fdur ELSE sdur]

HintNames == {"width", "height", "duration"}

\* An upload_via_bot that always sends the three hints, whatever their value.
HintFieldsAlways(w, h, dur) == HintNames

\* upload_via_bot, lines 526-528: a hint is sent when its value is positive.
HintFields(w, h, dur) ==
    (IF w > 0 THEN {"width"} ELSE {})
        \cup (IF h > 0 THEN {"height"} ELSE {})
        \cup (IF dur > 0 THEN {"duration"} ELSE {})

\* upload_via_bot, lines 521-533 and 564: the fields of the request.
UploadFields(w, h, dur) ==
    {"chat_id", "caption", "supports_streaming", "video"} \cup HintFields(w, h, dur)

\* `limit` is the lightweight limit the file is measured against; the code has
\* no such setting and does not read it. ffprobe fails on a file that is gone.
CallUploadViaBot ==
    /\ UNCHANGED <<schedVars, upVars, runVars, postVars>>
    /\ fn = "none"
    /\ \E requests_installed \in BOOLEAN, exists \in BOOLEAN,
          size \in 0..MaxSizeMB, limit \in 0..MaxSizeMB, info \in ProbeAnswers :
          /\ ~exists => info = ProbeFailed
          /\ fn' = "upload_via_bot"
          /\ arg' = [requests_installed |-> requests_installed, exists |-> exists,
                     size |-> size, limit |-> limit, info |-> info]
          /\ LET attempts == UploadTransports(requests_installed, exists, size)
                 probe == ProbeVideoParams(info)
             IN  ret' = [attempts |-> attempts,
                         probe |-> probe,
                         fields |-> IF attempts = <<>> THEN {}
                                    ELSE UploadFields(probe.w, probe.h, probe.dur)]

\* Width and height of the sources given to the re-encodes: the multiples of
\* DimStep up to MaxDimSteps * DimStep.
DimStep == 360
MaxDimSteps == 7
SourceDims == {DimStep * k : k \in 1..MaxDimSteps}

\* telegram.py, line 233: the bounding box of scale_expr.
BOX_W == 1280
BOX_H == 720

\* av_rescale of ffmpeg: n / d rounded to the nearest integer, halves away
\* from zero (n >= 0, d > 0).
RoundDiv(n, d) == (2 * n + d) \div (2 * d)

\* The scale filter with -2 for one dimension: that dimension is the other one
\* times the input ratio, rounded to a multiple of 2.
FitWidth(w, h, out_h) == RoundDiv(out_h * w, h * 2) * 2
FitHeight(w, h, out_w) == RoundDiv(out_w * h, w * 2) * 2

\* transcode_preserve_ar, line 233:
\* scale='if(gt(a,16/9),1280,-2)':'if(gt(a,16/9),-2,720)', with a = iw/ih.
TranscodePreserveAr(w, h) ==
    IF 9 * w > 16 * h
    THEN [w |-> 1280, h |-> FitHeight(w, h, 1280)]
    ELSE [w |-> FitWidth(w, h, 720), h |-> 720]

\* woman.py, try_finalize_partial, line 282: -vf scale=-2:720.
Scale720(w, h) == [w |-> FitWidth(w, h, 720), h |-> 720]

\* woman.py, remux_inplace_safe, lines 229-236: libx264 with no scale filter
\* (with min_fps > 0 only fps is filtered): the frames keep their size.
RemuxInplaceDims(w, h) == [w |-> w, h |-> h]

\* The calls that encode the video again, by the name of the model's tiers.
ReencodeDims(tier, w, h) ==
    CASE tier = "transcode_mp4" -> TranscodePreserveAr(w, h)
      [] tier = "transcode_mkv" -> TranscodePreserveAr(w, h)
      [] tier = "x264_720" -> Scale720(w, h)
      [] tier = "x264_inplace" -> RemuxInplaceDims(w, h)

CallReencode ==
    /\ UNCHANGED <<schedVars, upVars, runVars, postVars>>
    /\ fn = "none"
    /\ \E tier \in ReencodeCalls, w \in SourceDims, h \in SourceDims :
          /\ fn' = "reencode"
          /\ arg' = [tier |-> tier, w |-> w, h |-> h]
          /\ ret' = ReencodeDims(tier, w, h)

HelpersInit ==
    /\ SchedIdle
    /\ UploaderIdle
    /\ HelperIdle

HelpersNext ==
    \/ CallFinalizePartFile
    \/ CallTryFinalizePartial
    \/ CallIsStable
    \/ CallUploadViaBot
    \/ CallReencode
    \/ CallEnsureStreamableMp4

\* Each behaviour is one call of one function.
HelpersSpec == HelpersInit /\ [][HelpersNext]_vars

(***************************************************************************)
(* Properties of the scheduler (woman.py).                                 *)
(***************************************************************************)
\* A job is launched when its thread has been started (line 485).
Started(j) == j \in Runners /\ pc[j] # "created"

LaunchCount(u) == Cardinality({j \in Runners : jobs[j].url = u /\ Started(j)})

InActive(j) == \E i \in 1..Len(active_jobs) : active_jobs[i] = j

RunningJobs == {j \in Runners : jobs[j].status = "running"}

AllLaunchedOnce ==
    /\ pc[MainThread] # "collect"
    /\ \A i \in 1..Len(rooms) : LaunchCount(rooms[i]) = 1

LeftWaitLoop ==
    /\ pc[MainThread] \in {"post", "exit"}
    /\ active_jobs = <<>>
    /\ remaining = <<>>

\* C1: with more locators than max_active, and every download ending, the
\* scheduler eventually has launched one job for every locator, each exactly
\* once (unless the user interrupts the run).
C1_SchedulerLiveness ==
    (pc[MainThread] # "collect" /\ Len(rooms) > max_active)
        ~> (AllLaunchedOnce \/ cancel_event)

\* C2: every run eventually finds the active set and the backlog both empty
\* and leaves the wait loop (unless the user interrupts it).
C2_SchedulerTermination == <>(LeftWaitLoop \/ cancel_event)

\* C3: the active set never holds more than max_active jobs, and no more than
\* max_active jobs are running at once.
C3_CapacityInvariant ==
    /\ Len(active_jobs) <= max_active
    /\ Cardinality(RunningJobs) <= max_active

C3_Witness ==
    /\ Len(rooms) > max_active
    /\ max_active > 1
    /\ Len(active_jobs) = max_active
    /\ Cardinality(RunningJobs) = max_active

C5_AtomicReplenishment ==
    (pc[MainThread] = "wait" /\ jobs_lock = Free /\ remaining # <<>>)
        => Len(active_jobs) = max_active

\* C6: a job that ended in error is eventually removed from the active set
\* (unless the user interrupts the run).
C6_FailedJobLeavesActiveSet ==
    \A j \in 1..MaxAnchors :
        (j \in Runners /\ jobs[j].status = "error")
            ~> (~InActive(j) \/ cancel_event)

AtJobsLock(t) ==
    \/ pc[t] = "spawn_append"
    \/ t # MainThread /\ pc[t] \in {"remove", "refill"}
    \/ t = MainThread /\ pc[t] = "wait"

\* C28: scheduler deadlock freedom. No thread tries to acquire jobs_lock while
\* it holds it itself, so that no thread waits for a guard that can never be
\* released.
C28_SchedulerDeadlockFreedom ==
    \A t \in Threads : AtJobsLock(t) => jobs_lock # t

\* The jobs whose download is in progress: worker is between the touch of the
\* tmpfile (line 321) and the end of ytdlp_download (line 323), and yt-dlp is
\* writing the job's files.
Writing == {j \in Runners : pc[j] = "download"}

\* C25: partial quiet period. A recovery operation is never applied to the
\* partial of a job that is still writing it: the post-processing of main, the
\* one that follows an interrupt included, runs its recovery operations only
\* when no download is in progress.
C25_PartialQuietPeriod ==
    [][(pc[MainThread] = "post" /\ pc'[MainThread] = "exit") => Writing = {}]_vars

(***************************************************************************)
(* Properties of the uploader                                              *)
(***************************************************************************)
\* The partial the next turn of recover_partials' loop handles, when it passes
\* the age and size filters of lines 379-384 and so reaches finalize_part_file.
RecoveryDue ==
    /\ phase = "recover"
    /\ parts # <<>>
    /\ Exists(fs, Head(parts))
    /\ now - fs[Head(parts)].mtime >= PART_STABLE_AGE
    /\ fs[Head(parts)].size >= PART_MIN_MB

\* C7: recovery never overwrites an existing final file. When finalize runs on
\* a partial whose final counterpart (same base name, final extension) already
\* exists, that file is still there with the same content afterwards, whether
\* the tiers succeed or fail.
C7_RecoveryKeepsExistingFinal ==
    [][(RecoveryDue /\ Exists(fs, OutBase(Head(parts), Head(parts).ext)))
          => fs'[OutBase(Head(parts), Head(parts).ext)]
                = fs[OutBase(Head(parts), Head(parts).ext)]]_vars

\* C8: a failed delivery preserves the artifact. Whenever the attempt for an
\* artifact does not end in confirmed success, the artifact's file is on disk
\* with unchanged content afterwards.
C8_FailedDeliveryPreservesArtifact ==
    [][(phase = "send" /\ last' = "failed") => fs'[files[idx]] = fs[files[idx]]]_vars

\* C9: failure isolation within a pass. When a delivery pass is over, every
\* artifact of the scan result has been attempted: the loop of run_once has
\* gone through the whole list, whatever failed on the way.
C9_PassAttemptsEveryArtifact ==
    phase = "idle" => idx >= Len(files)

\* C10: quarantined partials are never processed again. A partial that lies in
\* the quarantine location is skipped by every later turn of the recovery
\* loop: finalize is not called on it, with the default location as with a
\* configured one.
C10_QuarantinedNeverRecoveredAgain ==
    [][(phase = "recover" /\ parts # <<>> /\ Head(parts).dir = quarantine_dir)
          => last' = "skipped"]_vars

\* Where pf.rename(dest) of line 399 puts the partial p.
QuarantineDest(p) == [p EXCEPT !.dir = quarantine_dir]

\* C11: quarantine on exhaustion. When every recovery tier fails for a stable
\* partial, the partial is moved to the quarantine location with its content
\* intact and is no longer at the path it was found at; and a partial that lies
\* in the quarantine location is never deleted or changed afterwards.
C11_QuarantineOnExhaustion ==
    [][/\ (RecoveryDue /\ last' # "finalized")
            => /\ last' = "quarantined"
               /\ fs'[QuarantineDest(Head(parts))] = fs[Head(parts)]
               /\ (QuarantineDest(Head(parts)) # Head(parts)
                      => ~Exists(fs', Head(parts)))
       /\ \A p \in Paths :
              (p.part /\ p.dir = quarantine_dir /\ Exists(fs, p)) => fs'[p] = fs[p]
      ]_vars

\* C12: the source partial is removed only after the newly written output is
\* confirmed to exist and to hold data. Whenever recovery unlinks a partial, a
\* final file written from it exists and is not empty.
C12_SourceRemovedOnlyAfterOutputConfirmed ==
    [][(RecoveryDue /\ last' = "finalized")
          => \E e \in Exts :
                /\ Exists(fs', OutBase(Head(parts), e))
                /\ fs'[OutBase(Head(parts), e)].id = fs[Head(parts)].id
                /\ fs'[OutBase(Head(parts), e)].size > 0]_vars

\* C14: no unstable file reaches delivery. A file handed to send_one was last
\* modified at least FILE_STABLE_AGE seconds before.
C14_NoUnstableFileDelivered ==
    [][(phase = "send" /\ last' \in {"sent", "failed"})
          => now - fs[files[idx]].mtime >= FILE_STABLE_AGE]_vars

\* C15: scan membership. Every file the scan returns has an accepted
\* extension, a name with neither the .part suffix nor the marker of a temporary
\* output of the conversion step (__tg_), a size of at least the minimum and,
\* when a maximum is configured, of at most the maximum.
C15_ScanMembership ==
    [][(phase = "recover" /\ parts = <<>>)
          => \A i \in 1..Len(files') :
                /\ files'[i].ext \in EXTENSIONS
                /\ ~files'[i].part
                /\ files'[i].tg = 0
                /\ fs[files'[i]].size >= MIN_FILE_MB
                /\ (MAX_FILE_GB > 0 => fs[files'[i]].size <= MAX_FILE_GB * 1024)]_vars

C18_DeletionAfterDelivery ==
    [][(phase = "send" /\ Exists(fs, files[idx]))
          => /\ last' = "sent" => (Exists(fs', files[idx]) <=> ~delete_after_send)
             /\ last' # "sent" => Exists(fs', files[idx])]_vars

\* C20: recovery and delivery never overlap on a path. No delivery attempt
\* is made on a file while a normalization of that same file is in progress.
C20_NoOverlapOnPath ==
    [][(phase = "send" /\ idx' = idx + 1)
          => ~(remuxing.busy /\ remuxing.path = files[idx])]_vars

\* C29: delivery does not destroy other artifacts. Preparing and delivering one
\* artifact, the conversion tiers and the cleanup of their outputs included,
\* leaves every other file that was on disk before as it was.
C29_DeliveryKeepsOtherArtifacts ==
    [][phase = "send"
          => \A q \in Paths :
                (q # files[idx] /\ Exists(fs, q)) => fs'[q] = fs[q]]_vars

\* C30: a failed delivery leaves no new files. When the attempt fails, every
\* file on disk after it was on disk before it: no converted file is left
\* behind for a later scan. (That no file is missing afterwards is C8.)
C30_FailedDeliveryLeavesNoNewFiles ==
    [][(phase = "send" /\ last' = "failed")
          => \A q \in Paths : Exists(fs', q) => Exists(fs, q)]_vars

\* C31: partials do not linger. Every partial in a watched folder, of any
\* size, eventually leaves it: after finitely many cycles it has been finalized
\* or moved to the quarantine, and is no longer at the path it was found at.
C31_PartialsDoNotLinger ==
    \A p \in {q \in Paths : q.part /\ q.dir = "s"} :
        Exists(fs, p) ~> ~Exists(fs, p)

\* C32: quarantine preserves earlier entries. Moving a partial to the
\* quarantine location leaves every file that was already there as it was,
\* also when a partial of the same name was quarantined before.
C32_QuarantinePreservesEntries ==
    [][(phase = "recover" /\ parts # <<>> /\ last' = "quarantined")
          => \A q \in Paths :
                (q.dir = quarantine_dir /\ q # Head(parts) /\ Exists(fs, q))
                    => fs'[q] = fs[q]]_vars

\* C21: shutdown protocol. After a shutdown signal the running delivery or
\* recovery operation finishes, then exactly one final recovery sweep over the
\* partial files is performed, and only then does the process exit: when the
\* process has exited, one call of recover_partials was begun after the signal.
C21_ShutdownProtocol == phase = "exit" => swept = 1

\* C22: at-most-once delivery. Once the delivery of an artifact has been
\* confirmed it is never sent again: no later pass delivers a content whose
\* delivery was confirmed before, with delete-after-delivery on or off.
C22_AtMostOnceDelivery ==
    [][(phase = "send" /\ last' = "sent") => fs[files[idx]].id \notin delivered]_vars

(***************************************************************************)
(* Properties of the functions taken alone                                 *)
(***************************************************************************)
\* C13: the recovery cascade stops at the first success. In finalize_part_file
\* and in try_finalize_partial no tier is called after one that succeeded, and
\* for a partial that can be remux-copied no call that encodes the video again
\* is issued.
C13_CascadeStopsAtFirstSuccess ==
    fn \in {"finalize_part_file", "try_finalize_partial"} =>
        /\ \A i \in 1..(Len(ret.calls) - 1) : ret.calls[i] \notin arg.can
        /\ arg.can_copy => \A i \in 1..Len(ret.calls) : ret.calls[i] \notin ReencodeCalls

\* C23: aspect-ratio invariant. For every full re-encode of a source of width
\* w and height h the output fits inside the 1280x720 box, its ratio equals
\* w/h up to the rounding of the fitted dimension (one pixel), and it is square
\* only when the source is square.
C23_AspectRatioInvariant ==
    fn = "reencode" =>
        /\ ret.w <= BOX_W
        /\ ret.h <= BOX_H
        /\ \/ ret.w * arg.h - ret.h * arg.w \in (0 - arg.h)..arg.h
           \/ ret.w * arg.h - ret.h * arg.w \in (0 - arg.w)..arg.w
        /\ ret.w = ret.h => arg.w = arg.h

\* C24: cascade tier order. A cascade starts with a remux-copy; after a failed
\* remux-copy the next call issued is the remux with audio repair (video
\* copied, audio encoded); and a full re-encode is issued only after a
\* remux-copy and an audio repair have both been tried and have failed.
C24_CascadeTierOrder ==
    fn \in {"finalize_part_file", "ensure_streamable_mp4"} =>
        /\ ret.calls # <<>> => ret.calls[1] \in RemuxCopyCalls
        /\ Len(ret.calls) >= 2 => ret.calls[2] \in AudioRepairCalls
        /\ \A i \in 1..Len(ret.calls) :
              ret.calls[i] \in ReencodeCalls =>
                  /\ \E k \in 1..(i - 1) : ret.calls[k] \in RemuxCopyCalls
                  /\ \E k \in 1..(i - 1) : ret.calls[k] \in AudioRepairCalls

====
